---- MODULE Spec2Model ----
(***************************************************************************)
(* Model of bindings/azure/digitaltwins/digitaltwins.go: the Azure Digital *)
(* Twins output binding (Init, Invoke, patchSingleTwin, patchMultipleTwin) *)
(* and the pubsub envelope helpers that share the file                     *)
(* (NewCloudEventsEnvelope, FromCloudEvent, HasExpired, ApplyMetadata).    *)
(*                                                                         *)
(* Go strings that the code inspects character by character (patch paths,  *)
(* twin ids, payload bytes) are sequences of one-character strings; the    *)
(* empty Go string is then <<>>.  Other Go strings are TLA+ strings.       *)
(***************************************************************************)
EXTENDS Integers, Sequences, FiniteSets, TLC

VARIABLES
    \* ---- AzureDigitalTwins struct (lines 27-33)
    clientID, clientSecret, tenantID, adtInstanceURL,
    \* ---- last Init call: its argument, the fields before it, its result
    initProps, initPrev, initErr, initCalled,
    \* ---- Invoke in progress / last Invoke
    pc, req, mode, operationDoc, idx, calls, invokeRet,
    \* ---- pubsub envelope helpers
    cloudEvent, buildArgs, lastCall, now, expired, checkedAt, applied

bindingVars == <<clientID, clientSecret, tenantID, adtInstanceURL>>
initVars    == <<initProps, initPrev, initErr, initCalled>>
invokeVars  == <<pc, req, mode, operationDoc, idx, calls, invokeRet>>
pubsubVars  == <<cloudEvent, buildArgs, lastCall, now, expired, checkedAt, applied>>
vars        == <<bindingVars, initVars, invokeVars, pubsubVars>>

(***************************************************************************)
(* Bounds                                                                  *)
(***************************************************************************)
\* longest batch of patch operations in a request
MaxOps == 3
\* longest event payload, in bytes
MaxDataLen == 3
\* clock resolution: ticks per second
TicksPerSec == 2
\* the clock runs from 0 to MaxNow ticks
MaxNow == 6
\* largest message TTL, in seconds
MaxTTL == 2

(***************************************************************************)
(* Small helpers                                                           *)
(***************************************************************************)
Min(S) == CHOOSE x \in S : \A y \in S : x <= y

Range(f) == {f[x] : x \in DOMAIN f}

\* all functions from a subset of keys K to values V: Go maps map[string]string
Maps(K, V) == UNION {[D -> V] : D \in SUBSET K}

\* all sequences over S of length 0..n
SeqsUpTo(S, n) == UNION {[1..k -> S] : k \in 0..n}

\* Go's nil error / nil *InvokeResponse
Nil == "nil"

(***************************************************************************)
(* Init and getAzureDigitalTwinsMetadata                                   *)
(***************************************************************************)
EmptyStr == ""

\* metadata.Properties keys the code reads, in the order it reads them
ConfigKeys == <<"clientId", "clientSecret", "tenantId", "adtInstanceUrl">>

\* `val, ok := m[k]; ok && val != ""`
Present(m, k) == k \in DOMAIN m /\ m[k] # EmptyStr

MissingError(k) == "azureDigitalTwins error: missing " \o k

\* variant: an empty value counts as supplied
GetMetadataAcceptEmpty(props) ==
    LET missing == {i \in 1..4 : ConfigKeys[i] \notin DOMAIN props}
    IN  IF missing # {}
        THEN [ok |-> FALSE, err |-> MissingError(ConfigKeys[Min(missing)]),
              clientID |-> EmptyStr, clientSecret |-> EmptyStr,
              tenantID |-> EmptyStr, adtInstanceURL |-> EmptyStr]
        ELSE [ok |-> TRUE, err |-> Nil,
              clientID |-> props["clientId"], clientSecret |-> props["clientSecret"],
              tenantID |-> props["tenantId"], adtInstanceURL |-> props["adtInstanceUrl"]]

\* getAzureDigitalTwinsMetadata: the four checks in order, first failure returns
getAzureDigitalTwinsMetadata(props) ==
    LET missing == {i \in 1..4 : ~Present(props, ConfigKeys[i])}
    IN  IF missing # {}
        THEN [ok |-> FALSE, err |-> MissingError(ConfigKeys[Min(missing)]),
              clientID |-> EmptyStr, clientSecret |-> EmptyStr,
              tenantID |-> EmptyStr, adtInstanceURL |-> EmptyStr]
        ELSE [ok |-> TRUE, err |-> Nil,
              clientID |-> props["clientId"], clientSecret |-> props["clientSecret"],
              tenantID |-> props["tenantId"], adtInstanceURL |-> props["adtInstanceUrl"]]

\* the property maps handed to Init
PropValues == {EmptyStr, "v1", "v2"}
PropsPool  == Maps(Range(ConfigKeys), PropValues)

\* NewAzureDigitalTwins: every string field is the zero value
NewAzureDigitalTwins ==
    /\ clientID = EmptyStr
    /\ clientSecret = EmptyStr
    /\ tenantID = EmptyStr
    /\ adtInstanceURL = EmptyStr

\* Init(metadata): parse, return the error, else assign the four fields
DoInit(props) ==
    LET meta == getAzureDigitalTwinsMetadata(props)
    IN  /\ initProps' = props
        /\ initPrev' = bindingVars
        /\ initCalled' = TRUE
        /\ initErr' = meta.err
        /\ IF ~meta.ok
           THEN UNCHANGED bindingVars
           ELSE /\ clientID' = meta.clientID
                /\ clientSecret' = meta.clientSecret
                /\ tenantID' = meta.tenantID
                /\ adtInstanceURL' = meta.adtInstanceURL
        /\ UNCHANGED <<invokeVars, pubsubVars>>

(***************************************************************************)
(* Invoke: request data                                                    *)
(***************************************************************************)
\* A JSON object of the request body: "op", "path" and "value", where value
\* is "absent" (no such key), "null" (JSON null) or a JSON value.
Absent == "absent"
JsonNull == "null"

PathAX  == <<"/", "a", "/", "x">>
PathBY  == <<"/", "b", "/", "y">>
PathAXY == <<"/", "a", "/", "x", "/", "y">>
PathSAX == <<"/", "/", "a", "/", "x">>
PathA   == <<"/", "a">>
PathATr == <<"/", "a", "/">>
PathRel == <<"a", "/", "x">>
PathNL  == <<"/", "a", "/", "x", "\n">>
PathNone == <<>>

OpPool ==
    { [op |-> "replace", path |-> p, value |-> "1"] :
        p \in {PathAX, PathBY, PathAXY, PathSAX, PathA, PathATr, PathRel, PathNL,
               PathNone} }
    \cup { [op |-> "remove", path |-> PathAX, value |-> Absent],
           [op |-> "add", path |-> PathBY, value |-> JsonNull] }

\* req.Data: bytes that json.Unmarshal rejects (valid = FALSE), or a JSON
\* array of objects
BadData == [valid |-> FALSE, ops |-> <<>>]
DataPool == {BadData} \cup {[valid |-> TRUE, ops |-> o] : o \in SeqsUpTo(OpPool, MaxOps)}

\* req.Metadata: Go map lookups are case-sensitive, so "twinId" and "twinID"
\* are different keys
TwinT1 == <<"t", "1">>
TwinT2 == <<"t", "2">>
MetaPool ==
    { <<>>,
      [k \in {"twinID"} |-> TwinT1],
      [k \in {"twinID"} |-> <<>>],
      [k \in {"twinId"} |-> TwinT1],
      [k \in {"twinID", "twinId"} |-> IF k = "twinID" THEN TwinT2 ELSE TwinT1] }

ReqPool == [metadata : MetaPool, data : DataPool]

\* json.Unmarshal into []jsonPatchOperation (lines 42-47, 76, 104): Op and
\* Path are copied, Value is nil for a missing key and for null, TwinID has
\* tag "-" and stays the zero value
Unmarshal(data) ==
    [ok  |-> data.valid,
     doc |-> [i \in 1..Len(data.ops) |->
                [Op     |-> data.ops[i].op,
                 Path   |-> data.ops[i].path,
                 Value  |-> IF data.ops[i].value \in {Absent, JsonNull}
                            THEN Nil ELSE data.ops[i].value,
                 TwinID |-> <<>>]]]

\* JSON encoding of one jsonPatchOperation as the REST client sends it:
\* TwinID is never written, a nil Value is omitted (omitempty)
Marshal(o) ==
    [op |-> o.Op, path |-> o.Path,
     value |-> IF o.Value = Nil THEN Absent ELSE o.Value]

MarshalDoc(doc) == [i \in 1..Len(doc) |-> Marshal(doc[i])]

(***************************************************************************)
(* The path pattern ^/(.+?)\/(.+)$                                         *)
(***************************************************************************)
\* "." matches any character but a newline
Dot(s) == \A i \in 1..Len(s) : s[i] # "\n"

\* lengths k of a first group for which the whole pattern matches p:
\* "/" , k >= 1 characters, "/" , one or more characters, end of text
GroupLens(p) ==
    { k \in 1..Len(p) :
        /\ Len(p) >= k + 3
        /\ p[1] = "/"
        /\ p[k + 2] = "/"
        /\ Dot(SubSeq(p, 2, k + 1))
        /\ Dot(SubSeq(p, k + 3, Len(p))) }

Max(S) == CHOOSE x \in S : \A y \in S : x >= y

\* variant: a greedy first group, ^/(.+)\/(.+)$
FindStringSubmatchGreedy(p) ==
    IF GroupLens(p) = {} THEN <<>>
    ELSE LET k == Max(GroupLens(p))
         IN  <<p, SubSeq(p, 2, k + 1), SubSeq(p, k + 3, Len(p))>>

\* r.FindStringSubmatch(v.Path): nil when there is no match, else the match
\* and its two groups; the lazy first group takes the fewest characters
FindStringSubmatch(p) ==
    IF GroupLens(p) = {} THEN <<>>
    ELSE LET k == Min(GroupLens(p))
         IN  <<p, SubSeq(p, 2, k + 1), SubSeq(p, k + 3, Len(p))>>

(***************************************************************************)
(* patchMultipleTwin: first pass                                           *)
(***************************************************************************)
\* variant: the twin id is extracted but the path keeps its prefix
RewriteKeepPath(o) ==
    LET matches == FindStringSubmatch(o.Path)
    IN  [o EXCEPT !.TwinID = matches[2]]

\* lines 127-128
Rewrite(o) ==
    LET matches == FindStringSubmatch(o.Path)
    IN  [o EXCEPT !.TwinID = matches[2], !.Path = <<"/">> \o matches[3]]

Matches(o) == Len(FindStringSubmatch(o.Path)) = 3

\* variant: an operation with a bad path is skipped instead of failing the
\* request
FirstPassSkipInvalid(doc) ==
    [ok  |-> TRUE,
     doc |-> LET good == SelectSeq(doc, Matches)
             IN  [i \in 1..Len(good) |-> Rewrite(good[i])]]

\* lines 119-131: every operation's path must yield exactly 3 submatches,
\* else the request ends; then TwinID and Path are overwritten in place
FirstPass(doc) ==
    IF \E i \in 1..Len(doc) : ~Matches(doc[i])
    THEN [ok |-> FALSE, doc |-> doc]
    ELSE [ok |-> TRUE, doc |-> [i \in 1..Len(doc) |-> Rewrite(doc[i])]]

(***************************************************************************)
(* The outbound call client.Update(ctx, twinID, patchDoc, "*", "", "")     *)
(***************************************************************************)
UpdateOutcomes == {"ok", "error"}

UpdateCall(twin, doc, outcome) ==
    [baseURI  |-> adtInstanceURL,
     twinID   |-> twin,
     patchDoc |-> MarshalDoc(doc),
     ifMatch  |-> "*",
     outcome  |-> outcome]

\* variant: the result of Update is checked and a failure is returned
UpdateResultChecked(outcome) ==
    [stop |-> outcome # "ok", err |-> IF outcome = "ok" THEN Nil ELSE outcome]

\* lines 96 and 155: the values Update returns are discarded
UpdateResult(outcome) == [stop |-> FALSE, err |-> Nil]

(***************************************************************************)
(* Invoke, patchSingleTwin, patchMultipleTwin                              *)
(***************************************************************************)
\* the metadata key Invoke looks up (line 173)
TwinIDKey == "twinID"

\* variant: the key spelled as the configuration keys are
SingleTwinRequestedLowerD(metadata) ==
    "twinId" \in DOMAIN metadata /\ metadata["twinId"] # <<>>

\* `val, ok := req.Metadata["twinID"]; ok && val != ""`
SingleTwinRequested(metadata) ==
    TwinIDKey \in DOMAIN metadata /\ metadata[TwinIDKey] # <<>>

Returned(err) == invokeRet' = [response |-> Nil, err |-> err]

\* Invoke up to the first outbound call: the mode is chosen, the body is
\* deserialized and, in multi-twin mode, the first pass runs
InvokeStart(r) ==
    /\ pc = "ready"
    /\ req' = r
    /\ calls' = <<>>
    /\ idx' = 1
    /\ LET u == Unmarshal(r.data)
       IN  IF SingleTwinRequested(r.metadata)
           THEN /\ mode' = "single"
                /\ operationDoc' = u.doc
                /\ IF ~u.ok
                   THEN pc' = "returned" /\ Returned(Nil)
                   ELSE pc' = "single" /\ UNCHANGED invokeRet
           ELSE LET fp == FirstPass(u.doc)
                IN  /\ mode' = "multi"
                    /\ operationDoc' = IF u.ok THEN fp.doc ELSE u.doc
                    /\ IF ~u.ok \/ ~fp.ok \/ Len(fp.doc) = 0
                       THEN pc' = "returned" /\ Returned(Nil)
                       ELSE pc' = "pass2" /\ UNCHANGED invokeRet
    /\ UNCHANGED <<bindingVars, initVars, pubsubVars>>

\* patchSingleTwin lines 83-98: one Update with the whole document
UpdateSingle(outcome) ==
    /\ pc = "single"
    /\ calls' = Append(calls, UpdateCall(req.metadata[TwinIDKey], operationDoc, outcome))
    /\ pc' = "returned"
    /\ Returned(UpdateResult(outcome).err)
    /\ UNCHANGED <<req, mode, operationDoc, idx>>
    /\ UNCHANGED <<bindingVars, initVars, pubsubVars>>

\* patchMultipleTwin lines 134-158: one iteration of the second pass; the
\* function returns after the last one.  json.Marshal (line 137) only feeds
\* the log and cannot fail on what json.Unmarshal produced.
SecondPassStep(outcome) ==
    /\ pc = "pass2"
    /\ idx <= Len(operationDoc)
    /\ LET v == operationDoc[idx]
           res == UpdateResult(outcome)
       IN  /\ calls' = Append(calls, UpdateCall(v.TwinID, <<v>>, outcome))
           /\ idx' = idx + 1
           /\ IF res.stop \/ idx + 1 > Len(operationDoc)
              THEN pc' = "returned" /\ Returned(res.err)
              ELSE pc' = "pass2" /\ UNCHANGED invokeRet
    /\ UNCHANGED <<req, mode, operationDoc>>
    /\ UNCHANGED <<bindingVars, initVars, pubsubVars>>


(***************************************************************************)
(* pubsub: NewCloudEventsEnvelope                                          *)
(***************************************************************************)
DefaultCloudEventType == "com.dapr.event.sent"
CloudEventsSpecVersion == "1.0"
DefaultCloudEventSource == "Dapr"
DefaultCloudEventDataContentType == "text/plain"
TraceIDField == "traceid"
expirationField == "expiration"

\* m[k] = v on a Go map
MapSet(m, k, v) == [x \in DOMAIN m \cup {k} |-> IF x = k THEN v ELSE m[x]]

\* jsoniter.Unmarshal(data, &j) over the bytes [ ] , 1 x: a value is a number
\* (one or more digits 1) or an array of values; anything else, an empty
\* input included, and anything after the value, is an error.
\* ParseValue(s, i) is the position after the value that starts at i, or 0.
RECURSIVE ParseValue(_, _), ParseElems(_, _), ParseDigits(_, _)
ParseDigits(s, i) ==
    IF i <= Len(s) /\ s[i] = "1" THEN ParseDigits(s, i + 1) ELSE i

ParseElems(s, i) ==
    LET j == ParseValue(s, i)
    IN  IF j = 0 \/ j > Len(s) THEN 0
        ELSE IF s[j] = "," THEN ParseElems(s, j + 1)
        ELSE IF s[j] = "]" THEN j + 1
        ELSE 0

ParseValue(s, i) ==
    IF i > Len(s) THEN 0
    ELSE IF s[i] = "1" THEN ParseDigits(s, i)
    ELSE IF s[i] = "["
         THEN IF i + 1 <= Len(s) /\ s[i + 1] = "]" THEN i + 2 ELSE ParseElems(s, i + 1)
    ELSE 0

\* err == nil of jsoniter.Unmarshal
UnmarshalOK(data) == ParseValue(data, 1) = Len(data) + 1

\* variant: a content type the caller supplied is kept
DataContentTypeKeepCaller(dataContentType, data) ==
    IF dataContentType # ""
    THEN dataContentType
    ELSE IF UnmarshalOK(data) THEN "application/json"
    ELSE DefaultCloudEventDataContentType

\* lines 320-328: the default, then the override when the payload is JSON
DataContentType(dataContentType, data) ==
    LET dct == IF dataContentType = ""
               THEN DefaultCloudEventDataContentType ELSE dataContentType
    IN  IF UnmarshalOK(data) THEN "application/json" ELSE dct

\* uuid is the value uuid.New().String() yields if it is called
NewCloudEventsEnvelope(id, source, eventType, subject, topic, pubsubName, dataContentType, data, traceID, uuid) ==
    [id              |-> IF id = "" THEN uuid ELSE id,
     specversion     |-> CloudEventsSpecVersion,
     datacontenttype |-> DataContentType(dataContentType, data),
     source          |-> IF source = "" THEN DefaultCloudEventSource ELSE source,
     type            |-> IF eventType = "" THEN DefaultCloudEventType ELSE eventType,
     subject         |-> subject,
     topic           |-> topic,
     pubsubname      |-> pubsubName,
     data            |-> data,
     traceid         |-> traceID]

Bytes == {"[", "]", ",", "1", "x"}
UUIDs == {"uuid-1", "uuid-2"}

ArgsPool ==
    [id : {"", "id-1"}, source : {"", "src"}, eventType : {"", "evt"},
     dataContentType : {"", "text/plain", "application/xml"},
     data : SeqsUpTo(Bytes, MaxDataLen)]

NoArgs == [id |-> "", source |-> "", eventType |-> "", dataContentType |-> "",
           data |-> <<>>]

BuildEnvelope(a, uuid) ==
    /\ lastCall.op = "none"
    /\ cloudEvent' = NewCloudEventsEnvelope(a.id, a.source, a.eventType, "subj",
                        "topic-1", "pubsub-1", a.dataContentType, a.data,
                        "trace-1", uuid)
    /\ buildArgs' = a
    /\ lastCall' = [lastCall EXCEPT !.op = "NewCloudEventsEnvelope"]
    /\ UNCHANGED <<now, expired, checkedAt, applied>>
    /\ UNCHANGED <<bindingVars, initVars, invokeVars>>

(***************************************************************************)
(* pubsub: time, RFC3339                                                   *)
(***************************************************************************)
\* A Go value stored under "expiration".  A string is empty, an RFC3339
\* timestamp (wall-clock reading `local` in ticks, zone offset `off` in
\* ticks) or some other text; a []byte may hold the same text; an int stands
\* for a value that %s cannot print as text.
StrEmpty == [type |-> "string", form |-> "empty", local |-> 0, off |-> 0]
StrText  == [type |-> "string", form |-> "text", local |-> 0, off |-> 0]
StrTime(local, off) == [type |-> "string", form |-> "rfc3339", local |-> local, off |-> off]
BytesTime(local, off) == [type |-> "bytes", form |-> "rfc3339", local |-> local, off |-> off]
IntValue == [type |-> "int", form |-> "text", local |-> 0, off |-> 0]

\* fmt.Sprintf("%s", e): a string is itself, a []byte is its text, an int
\* prints as %!s(int=5), which is no timestamp
Sprintf(e) ==
    IF e.type \in {"string", "bytes"} THEN [e EXCEPT !.type = "string"] ELSE StrText

\* time.Parse(time.RFC3339, s): the instant is the wall-clock reading minus
\* the zone offset; fractional seconds are accepted
Parse(s) ==
    IF s.form = "rfc3339"
    THEN [ok |-> TRUE, t |-> [unix |-> s.local - s.off, zone |-> s.off]]
    ELSE [ok |-> FALSE, t |-> [unix |-> 0, zone |-> 0]]

\* t.UTC(): the same instant, in the zone UTC
UTC(t) == [t EXCEPT !.zone = 0]

\* t.Before(u)
Before(t, u) == t.unix < u.unix

\* t.Add(d)
Add(t, d) == [t EXCEPT !.unix = t.unix + d]

\* variant: the wall-clock reading is rounded up to the next whole second
FormatRoundUp(t) ==
    StrTime(((t.unix + t.zone + TicksPerSec - 1) \div TicksPerSec) * TicksPerSec, t.zone)

\* t.Format(time.RFC3339): the wall-clock reading in t's zone, cut to whole
\* seconds, and the zone offset
Format(t) ==
    StrTime(((t.unix + t.zone) \div TicksPerSec) * TicksPerSec, t.zone)

\* time.Now() when the clock reads n ticks
Now(n) == [unix |-> n, zone |-> 0]

(***************************************************************************)
(* pubsub: HasExpired, ApplyMetadata, FromCloudEvent                       *)
(***************************************************************************)
\* variant: an event whose expiration is this very instant counts as expired
HasExpiredInclusive(ce, n) ==
    IF expirationField \in DOMAIN ce /\ ce[expirationField] # StrEmpty
    THEN LET p == Parse(Sprintf(ce[expirationField]))
         IN  IF ~p.ok THEN FALSE
             ELSE ~Before(UTC(Now(n)), UTC(p.t))
    ELSE FALSE

\* HasExpired(cloudEvent) when the clock reads n
HasExpired(ce, n) ==
    IF expirationField \in DOMAIN ce /\ ce[expirationField] # StrEmpty
    THEN LET p == Parse(Sprintf(ce[expirationField]))
         IN  IF ~p.ok THEN FALSE
             ELSE Before(UTC(p.t), UTC(Now(n)))
    ELSE FALSE

\* metadata.TryGetTTL: the TTL the metadata carries, as a duration
TTLMetadataKey == "ttlInSeconds"
TryGetTTL(metadata) ==
    IF TTLMetadataKey \in DOMAIN metadata
    THEN [ttl |-> metadata[TTLMetadataKey] * TicksPerSec, hasTTL |-> TRUE]
    ELSE [ttl |-> 0, hasTTL |-> FALSE]

\* Feature.IsPresent: membership in the component's feature list
FeatureMessageTTL == "MESSAGE_TTL"
IsPresent(feature, componentFeatures) == feature \in componentFeatures

\* variant: the expiration is written whenever the metadata carries a TTL
ApplyMetadataIgnoreFeatures(ce, componentFeatures, metadata, n) ==
    LET r == TryGetTTL(metadata)
    IN  IF r.hasTTL
        THEN MapSet(ce, expirationField, Format(Add(UTC(Now(n)), r.ttl)))
        ELSE ce

\* ApplyMetadata(cloudEvent, componentFeatures, metadata) when the clock
\* reads n: the envelope afterwards
ApplyMetadata(ce, componentFeatures, metadata, n) ==
    LET r == TryGetTTL(metadata)
    IN  IF r.hasTTL /\ ~IsPresent(FeatureMessageTTL, componentFeatures)
        THEN MapSet(ce, expirationField, Format(Add(UTC(Now(n)), r.ttl)))
        ELSE ce

FeaturesPool == SUBSET {FeatureMessageTTL, "OTHER"}
TTLMetaPool == {<<>>} \cup {[k \in {TTLMetadataKey} |-> s] : s \in 1..MaxTTL}

NotApplied == [written |-> FALSE, at |-> 0, ttl |-> 0]
NoCall == [op |-> "none", env |-> <<>>, features |-> {}, metadata |-> <<>>, at |-> 0]

\* the envelope a publisher builds for the TTL scenarios
PublishedEnvelope ==
    NewCloudEventsEnvelope("id-1", "", "", "subj", "topic-1", "pubsub-1", "",
                           <<"x">>, "trace-1", "uuid-1")

\* expiration values of events that arrive from elsewhere
ExpirationPool ==
    {StrEmpty, StrText, IntValue, BytesTime(TicksPerSec, 0),
     StrTime(TicksPerSec, 0), StrTime(TicksPerSec + 1, 0),
     StrTime(2 * TicksPerSec, TicksPerSec), StrTime(TicksPerSec, 0 - TicksPerSec)}

\* decoded bodies of incoming events: with and without an expiration
IncomingPool ==
    {PublishedEnvelope} \cup
    {MapSet(PublishedEnvelope, expirationField, e) : e \in ExpirationPool}

\* FromCloudEvent(cloudEvent, traceID): a body that does not decode returns
\* the error and no envelope; else the decoded map with traceid overwritten
FromCloudEvent(valid, body, traceID) ==
    IF valid
    THEN [ok |-> TRUE, m |-> MapSet(body, TraceIDField, traceID)]
    ELSE [ok |-> FALSE, m |-> <<>>]

Receive(valid, body, traceID) ==
    LET r == FromCloudEvent(valid, body, traceID)
    IN  /\ cloudEvent' = IF r.ok THEN r.m ELSE cloudEvent
        /\ lastCall' = [NoCall EXCEPT !.op = IF r.ok THEN "FromCloudEvent"
                                              ELSE "FromCloudEventError"]
        /\ expired' = IF r.ok THEN "none" ELSE expired
        /\ applied' = IF r.ok THEN NotApplied ELSE applied
        /\ UNCHANGED <<buildArgs, now, checkedAt>>
        /\ UNCHANGED <<bindingVars, initVars, invokeVars>>

ApplyMetadataCall(componentFeatures, metadata) ==
    LET after == ApplyMetadata(cloudEvent, componentFeatures, metadata, now)
        wrote == TryGetTTL(metadata).hasTTL
                   /\ ~IsPresent(FeatureMessageTTL, componentFeatures)
    IN  /\ cloudEvent' = after
        /\ lastCall' = [op |-> "ApplyMetadata", env |-> cloudEvent,
                        features |-> componentFeatures, metadata |-> metadata,
                        at |-> now]
        /\ expired' = IF wrote THEN "none" ELSE expired
        /\ applied' = IF wrote
                      THEN [written |-> TRUE, at |-> now, ttl |-> TryGetTTL(metadata).ttl]
                      ELSE applied
        /\ UNCHANGED <<buildArgs, now, checkedAt>>
        /\ UNCHANGED <<bindingVars, initVars, invokeVars>>

HasExpiredCall ==
    /\ expired' = IF HasExpired(cloudEvent, now) THEN "true" ELSE "false"
    /\ checkedAt' = now
    /\ lastCall' = [NoCall EXCEPT !.op = "HasExpired", !.env = cloudEvent, !.at = now]
    /\ UNCHANGED <<cloudEvent, buildArgs, now, applied>>
    /\ UNCHANGED <<bindingVars, initVars, invokeVars>>

\* the wall clock advances
Tick ==
    /\ now < MaxNow
    /\ now' = now + 1
    /\ UNCHANGED <<cloudEvent, buildArgs, lastCall, expired, checkedAt, applied>>
    /\ UNCHANGED <<bindingVars, initVars, invokeVars>>


(***************************************************************************)
(* Specifications                                                          *)
(***************************************************************************)
NoInitCall ==
    /\ initProps = <<>>
    /\ initPrev = <<EmptyStr, EmptyStr, EmptyStr, EmptyStr>>
    /\ initErr = Nil
    /\ initCalled = FALSE

NoInvoke ==
    /\ pc = "ready"
    /\ req = [metadata |-> <<>>, data |-> BadData]
    /\ mode = "none"
    /\ operationDoc = <<>>
    /\ idx = 1
    /\ calls = <<>>
    /\ invokeRet = [response |-> Nil, err |-> Nil]

NoEnvelope ==
    /\ cloudEvent = <<>>
    /\ buildArgs = NoArgs
    /\ lastCall = NoCall
    /\ now = 0
    /\ expired = "none"
    /\ checkedAt = 0
    /\ applied = NotApplied

\* the fields after Init succeeded on a complete property map
Configured ==
    /\ clientID = "v1"
    /\ clientSecret = "v1"
    /\ tenantID = "v1"
    /\ adtInstanceURL = "v1"

\* Init: a binding as constructed; Init is called with any property map
InitInit == NewAzureDigitalTwins /\ NoInitCall /\ NoInvoke /\ NoEnvelope
NextInit == \E props \in PropsPool : DoInit(props)
SpecInit == InitInit /\ [][NextInit]_vars

\* Invoke on a binding as constructed or configured.  An invocation keeps no
\* state for the next one, so a behaviour is one request run to its return
Init == (NewAzureDigitalTwins \/ Configured) /\ NoInitCall /\ NoInvoke /\ NoEnvelope
Next ==
    \/ pc = "ready" /\ \E r \in ReqPool : InvokeStart(r)
    \/ \E o \in UpdateOutcomes : UpdateSingle(o)
    \/ \E o \in UpdateOutcomes : SecondPassStep(o)
Spec == Init /\ [][Next]_vars

\* NewCloudEventsEnvelope, a pure function, applied once to any arguments
InitEnvelope == NewAzureDigitalTwins /\ NoInitCall /\ NoInvoke /\ NoEnvelope
NextEnvelope == lastCall.op = "none" /\ \E a \in ArgsPool, u \in UUIDs : BuildEnvelope(a, u)
SpecEnvelope == InitEnvelope /\ [][NextEnvelope]_vars

\* TTL emulation: an envelope is published or received, ApplyMetadata and
\* HasExpired are called on it, and the clock advances
InitTTL ==
    /\ NewAzureDigitalTwins /\ NoInitCall /\ NoInvoke
    /\ cloudEvent = PublishedEnvelope
    /\ buildArgs = NoArgs
    /\ lastCall = NoCall
    /\ now = 0
    /\ expired = "none"
    /\ checkedAt = 0
    /\ applied = NotApplied
NextTTL ==
    \/ \E valid \in BOOLEAN, body \in IncomingPool : Receive(valid, body, "trace-2")
    \/ \E f \in FeaturesPool, m \in TTLMetaPool : ApplyMetadataCall(f, m)
    \/ HasExpiredCall
    \/ Tick
SpecTTL == InitTTL /\ [][NextTTL]_vars


(***************************************************************************)
(* Properties of Invoke (specification Spec)                               *)
(***************************************************************************)
\* the operations of the request body, as the caller wrote them
Ops == req.data.ops
NOps == Len(Ops)

\* a path of the shape /<twinId>/<rest>: a leading slash, a later slash with
\* at least one character on each side of it, no line break
WellFormed(p) ==
    /\ Len(p) >= 4
    /\ p[1] = "/"
    /\ \A i \in 1..Len(p) : p[i] # "\n"
    /\ \E j \in 3..(Len(p) - 1) : p[j] = "/"

\* the slash that ends the first segment, the segment, and what follows it
SegmentEnd(p) == Min({j \in 3..(Len(p) - 1) : p[j] = "/"})
TwinOf(p) == SubSeq(p, 2, SegmentEnd(p) - 1)
RestOf(p) == SubSeq(p, SegmentEnd(p) + 1, Len(p))

AllWellFormed == \A i \in 1..NOps : WellFormed(Ops[i].path)

\* an operation as it goes out on the wire: a null value is written as no
\* value at all
Sent(o, path) ==
    [op |-> o.op, path |-> path,
     value |-> IF o.value = JsonNull THEN Absent ELSE o.value]

\* operation i with the twin-id prefix stripped from its path
Stripped(i) == Sent(Ops[i], <<"/">> \o RestOf(Ops[i].path))

MultiBatch == mode = "multi" /\ req.data.valid

RECURSIVE ConcatDocs(_)
ConcatDocs(cs) ==
    IF cs = <<>> THEN <<>> ELSE Head(cs).patchDoc \o ConcatDocs(Tail(cs))

\* the calls addressed to twin t, and the operations of the batch addressed
\* to it, both in order
CallsTo(t) == SelectSeq(calls, LAMBDA c : c.twinID = t)
IndicesTo(t) == {i \in 1..NOps : TwinOf(Ops[i].path) = t}
RECURSIVE StrippedFrom(_, _)
StrippedFrom(i, t) ==
    IF i > NOps THEN <<>>
    ELSE IF TwinOf(Ops[i].path) = t
         THEN <<Stripped(i)>> \o StrippedFrom(i + 1, t)
         ELSE StrippedFrom(i + 1, t)
Twins == {TwinOf(Ops[i].path) : i \in 1..NOps}

\* C1: in multi-twin mode, a batch with at least one path that is not of the
\* shape /<twinId>/<rest> issues no Update call at all, whatever precedes the
\* bad operation: Invoke has returned with an empty call log.
C1_AllOrNothing ==
    (MultiBatch /\ ~AllWellFormed) => (calls = <<>> /\ pc = "returned")

\* a valid operation followed by a bad one: nothing was sent
C1_Witness ==
    /\ MultiBatch /\ pc = "returned" /\ NOps >= 2
    /\ WellFormed(Ops[1].path) /\ ~WellFormed(Ops[2].path)
    /\ calls = <<>>

\* C2 as stated: after a multi-twin batch of well-formed paths, there is one
\* Update call per distinct twin id, and its patch document holds all the
\* operations addressed to that twin, in order, prefix stripped.
C2_OneCallPerTwin ==
    (MultiBatch /\ AllWellFormed /\ pc = "returned") =>
        /\ Len(calls) = Cardinality(Twins)
        /\ \A t \in Twins :
              /\ Len(CallsTo(t)) = 1
              /\ CallsTo(t)[1].patchDoc = StrippedFrom(1, t)

\* C2 amended: after a multi-twin batch of well-formed paths, there is one
\* Update call per operation (not per twin); for each twin id, the patch
\* documents of the calls addressed to it, taken in the order the calls were
\* issued, hold exactly the operations of the batch addressed to that twin,
\* in their original relative order, each with the twin-id prefix stripped;
\* no call goes to any other twin.
C2_PerTwinInOrder ==
    (MultiBatch /\ AllWellFormed /\ pc = "returned") =>
        /\ Len(calls) = NOps
        /\ \A t \in Twins : ConcatDocs(CallsTo(t)) = StrippedFrom(1, t)
        /\ \A i \in 1..Len(calls) : calls[i].twinID \in Twins

\* twin a, twin b, twin a again: three calls, two of them to a
C2_Witness ==
    /\ MultiBatch /\ AllWellFormed /\ pc = "returned"
    /\ NOps = 3
    /\ TwinOf(Ops[1].path) = TwinOf(Ops[3].path)
    /\ TwinOf(Ops[1].path) # TwinOf(Ops[2].path)
    /\ Ops[1].path # Ops[3].path
    /\ Len(CallsTo(TwinOf(Ops[1].path))) = 2

\* the whole request body, paths untouched, as one patch document
WholeDoc == [i \in 1..NOps |-> Sent(Ops[i], Ops[i].path)]

HasNonEmpty(m, k) == k \in DOMAIN m /\ m[k] # <<>>

\* C3 as stated: a non-empty metadata value under "twinId" selects
\* single-twin mode, which issues exactly one Update call, to that twin, with
\* the whole batch and unchanged paths; otherwise Invoke runs multi-twin mode.
C3_TwinIdLowerD ==
    pc = "returned" =>
        IF HasNonEmpty(req.metadata, "twinId")
        THEN /\ mode = "single"
             /\ Len(calls) = 1
             /\ calls[1].twinID = req.metadata["twinId"]
             /\ calls[1].patchDoc = WholeDoc
        ELSE mode = "multi"

\* C3 amended: the key is "twinID".  A non-empty metadata value under
\* "twinID" selects single-twin mode: if the body deserializes, exactly one
\* Update call is issued, to that twin, with the whole batch in input order
\* and unchanged paths (paths are not validated); if it does not, none is.
\* When "twinID" is absent or empty (a "twinId" key does not count), Invoke
\* runs multi-twin mode.
C3_SingleTwinMode ==
    pc = "returned" =>
        IF HasNonEmpty(req.metadata, "twinID")
        THEN /\ mode = "single"
             /\ req.data.valid =>
                  /\ Len(calls) = 1
                  /\ calls[1].twinID = req.metadata["twinID"]
                  /\ calls[1].patchDoc = WholeDoc
             /\ ~req.data.valid => calls = <<>>
        ELSE mode = "multi"

\* single-twin mode sent a batch holding a path that multi-twin mode rejects
C3_Witness ==
    /\ pc = "returned" /\ mode = "single" /\ req.data.valid
    /\ NOps >= 2 /\ ~AllWellFormed
    /\ Len(calls) = 1 /\ Len(calls[1].patchDoc) = NOps

\* C8: in multi-twin mode with well-formed paths the calls go out one per
\* operation in input order: at every moment the calls issued so far are
\* those of the first operations of the batch, the i-th addressed to the
\* first segment of the i-th path and carrying that one operation with path
\* "/" + rest, so that "/" + twinId + new path is the original path; when
\* Invoke has returned there are exactly n calls.
C8_OneCallPerOperation ==
    (MultiBatch /\ AllWellFormed) =>
        /\ Len(calls) <= NOps
        /\ pc = "returned" => Len(calls) = NOps
        /\ pc = "pass2" => Len(calls) = idx - 1
        /\ \A i \in 1..Len(calls) :
              /\ calls[i].twinID = TwinOf(Ops[i].path)
              /\ calls[i].patchDoc = <<Stripped(i)>>
              /\ <<"/">> \o calls[i].twinID \o calls[i].patchDoc[1].path = Ops[i].path

\* two operations on the same twin: two calls, each with one operation
C8_Witness ==
    /\ MultiBatch /\ AllWellFormed /\ pc = "returned"
    /\ NOps >= 2
    /\ TwinOf(Ops[1].path) = TwinOf(Ops[2].path)
    /\ Len(RestOf(Ops[2].path)) > 1
    /\ Len(calls) = NOps
    /\ calls[1].twinID = calls[2].twinID

\* C9: Invoke returns a nil response and a nil error on every path.  When
\* the body does not deserialize no call is issued; a failed Update does not
\* stop the later ones: single-twin mode still ends after its one call and
\* multi-twin mode after one call per operation.
C9_AlwaysNilNil ==
    pc = "returned" =>
        /\ invokeRet = [response |-> Nil, err |-> Nil]
        /\ ~req.data.valid => calls = <<>>
        /\ (mode = "single" /\ req.data.valid) => Len(calls) = 1
        /\ (MultiBatch /\ AllWellFormed) => Len(calls) = NOps
        /\ (MultiBatch /\ ~AllWellFormed) => calls = <<>>

\* the first Update failed, the second was issued all the same
C9_Witness ==
    /\ pc = "returned" /\ mode = "multi"
    /\ Len(calls) >= 2
    /\ calls[1].outcome = "error"
    /\ invokeRet = [response |-> Nil, err |-> Nil]

(***************************************************************************)
(* Properties of Init (specification SpecInit)                             *)
(***************************************************************************)
Supplied(k) == k \in DOMAIN initProps /\ initProps[k] # ""

\* C4: Init succeeds exactly when clientId, clientSecret, tenantId and
\* adtInstanceUrl are all present and non-empty.  A failure names the first
\* missing field in that order and leaves the four fields as they were; a
\* success sets them to the supplied values.
C4_InitAllOrNothing ==
    initCalled =>
        IF ~Supplied("clientId")
        THEN initErr = "azureDigitalTwins error: missing clientId"
             /\ bindingVars = initPrev
        ELSE IF ~Supplied("clientSecret")
        THEN initErr = "azureDigitalTwins error: missing clientSecret"
             /\ bindingVars = initPrev
        ELSE IF ~Supplied("tenantId")
        THEN initErr = "azureDigitalTwins error: missing tenantId"
             /\ bindingVars = initPrev
        ELSE IF ~Supplied("adtInstanceUrl")
        THEN initErr = "azureDigitalTwins error: missing adtInstanceUrl"
             /\ bindingVars = initPrev
        ELSE /\ initErr = Nil
             /\ clientID = initProps["clientId"]
             /\ clientSecret = initProps["clientSecret"]
             /\ tenantID = initProps["tenantId"]
             /\ adtInstanceURL = initProps["adtInstanceUrl"]

\* a configured binding, then an Init that supplies a new clientId but an
\* empty tenantId: it fails and the old clientID is still there
C4_Witness ==
    /\ initCalled
    /\ initPrev = <<"v1", "v1", "v1", "v1">>
    /\ Supplied("clientId") /\ initProps["clientId"] = "v2"
    /\ Supplied("clientSecret")
    /\ "tenantId" \in DOMAIN initProps /\ initProps["tenantId"] = ""
    /\ initErr = "azureDigitalTwins error: missing tenantId"
    /\ clientID = "v1"

(***************************************************************************)
(* Properties of NewCloudEventsEnvelope (specification SpecEnvelope)       *)
(***************************************************************************)
\* C7: datacontenttype is "application/json" whenever the payload parses as
\* JSON, whatever the caller supplied; else it is the caller's value if that
\* is non-empty and "text/plain" otherwise.
C7_DataContentType ==
    lastCall.op = "NewCloudEventsEnvelope" =>
        cloudEvent["datacontenttype"] =
            IF UnmarshalOK(buildArgs.data) THEN "application/json"
            ELSE IF buildArgs.dataContentType # "" THEN buildArgs.dataContentType
            ELSE "text/plain"

\* a JSON array sent as application/xml is labelled application/json
C7_Witness ==
    /\ lastCall.op = "NewCloudEventsEnvelope"
    /\ buildArgs.data = <<"[", "1", "]">>
    /\ buildArgs.dataContentType = "application/xml"
    /\ cloudEvent["datacontenttype"] = "application/json"

(***************************************************************************)
(* Properties of HasExpired and ApplyMetadata (specification SpecTTL)      *)
(***************************************************************************)
HasExpiration(ce) == "expiration" \in DOMAIN ce

\* the instant an expiration value denotes, when its text is an RFC3339
\* timestamp
IsTimestamp(e) == e.type \in {"string", "bytes"} /\ e.form = "rfc3339"
Instant(e) == e.local - e.off

\* C5: HasExpired is true exactly when the envelope has an expiration that
\* is a non-empty string, parses as RFC3339 and denotes an instant strictly
\* before the time of the call; a missing, empty or unparsable field, or an
\* instant at or after the time of the call, gives false.  The call leaves
\* the envelope as it was.
C5_HasExpired ==
    /\ expired # "none" =>
         (expired = "true" <=>
            /\ HasExpiration(cloudEvent)
            /\ IsTimestamp(cloudEvent["expiration"])
            /\ Instant(cloudEvent["expiration"]) < checkedAt)
    /\ lastCall.op = "HasExpired" => cloudEvent = lastCall.env

\* an expiration written with a zone offset, already past in UTC
C5_Witness ==
    /\ lastCall.op = "HasExpired" /\ expired = "true"
    /\ cloudEvent["expiration"].off # 0
    /\ cloudEvent["expiration"].local >= checkedAt

\* C6: ApplyMetadata writes the expiration, the RFC3339 rendering of the
\* time of the call plus the TTL, exactly when the metadata carries a TTL
\* and the feature list lacks the message-TTL feature, and then changes no
\* other field; in every other case the envelope is left as it was, an
\* expiration it already had included.
C6_ApplyMetadataFrame ==
    lastCall.op = "ApplyMetadata" =>
        IF "ttlInSeconds" \in DOMAIN lastCall.metadata
             /\ "MESSAGE_TTL" \notin lastCall.features
        THEN /\ DOMAIN cloudEvent = DOMAIN lastCall.env \cup {"expiration"}
             /\ \A k \in DOMAIN lastCall.env \ {"expiration"} :
                   cloudEvent[k] = lastCall.env[k]
             /\ cloudEvent["expiration"] =
                   StrTime(((lastCall.at \div TicksPerSec)
                              + lastCall.metadata["ttlInSeconds"]) * TicksPerSec, 0)
        ELSE cloudEvent = lastCall.env

\* a component with native TTL support: the expiration the envelope already
\* carried is still there
C6_Witness ==
    /\ lastCall.op = "ApplyMetadata"
    /\ "ttlInSeconds" \in DOMAIN lastCall.metadata
    /\ "MESSAGE_TTL" \in lastCall.features
    /\ HasExpiration(lastCall.env)
    /\ cloudEvent = lastCall.env

\* what HasExpired answered on an envelope ApplyMetadata wrote at applied.at
\* with TTL applied.ttl and nobody changed since
C10_Answers ==
    (applied.written /\ expired # "none") =>
        /\ applied.at <= Instant(cloudEvent["expiration"])
        /\ checkedAt <= Instant(cloudEvent["expiration"]) => expired = "false"
        /\ checkedAt > applied.at + applied.ttl => expired = "true"

\* C10: on an envelope whose expiration ApplyMetadata wrote at time t with a
\* positive whole-second TTL, HasExpired answers false at t and at every
\* time up to the written expiration and true at every time after t + ttl;
\* and once HasExpired answered true on an envelope, it answers true for as
\* long as the envelope is not modified.
C10_TTLConsistent ==
    /\ []C10_Answers
    /\ [][(expired = "true" /\ expired' # "none") => expired' = "true"]_vars

\* asked after t + ttl on a written envelope: expired
C10_Witness ==
    /\ applied.written /\ expired = "true"
    /\ applied.at > 0
    /\ checkedAt > applied.at + applied.ttl


====
